---- MODULE Spec2Model ----
(***************************************************************************)
(* covasim/requirements.py: the dependency guard.                          *)
(*                                                                         *)
(* The module defines two module-level dictionaries (available,            *)
(* min_versions), two functions (check_sciris, check_synthpops) and calls  *)
(* check_sciris() as the last statement of the module body.                *)
(*                                                                         *)
(* Strings that the code only passes around are TLA+ strings.  A version   *)
(* string is a sequence of one-character strings ("0.17.2" is              *)
(* <<"0",".","1","7",".","2">>), because the comparison parses it.         *)
(***************************************************************************)
EXTENDS Integers, Sequences, FiniteSets, TLC

VARIABLES
    sciris_env,     \* what "import sciris" finds: state and sc.__version__
    synthpops_env,  \* what "import synthpops" finds: state and the ImportError text
    module_state,   \* "unloaded", "loaded" or "failed" (the import raised)
    import_error,   \* the outcome of the import-time check_sciris() call
    load_checks,    \* number of check_sciris() calls made by the module body
    available,      \* the module-level dict `available`
    min_versions,   \* the module-level dict `min_versions`
    log,            \* the calls made by consumers so far, with their outcomes
    stdout          \* what print() has written

vars == <<sciris_env, synthpops_env, module_state, import_error, load_checks,
          available, min_versions, log, stdout>>

---------------------------------------------------------------------------
(* Bounds *)

\* Consumer calls per behaviour.
MaxCalls == 3

---------------------------------------------------------------------------
(* Version strings *)

Digits == <<"0", "1", "2", "3", "4", "5", "6", "7", "8", "9">>

\* str(n) for n >= 0
RECURSIVE IntStr(_)
IntStr(n) ==
    IF n < 10 THEN <<Digits[n + 1]>>
    ELSE IntStr(n \div 10) \o <<Digits[(n % 10) + 1]>>

\* "major.minor.patch"
VersionStr(major, minor, patch) ==
    IntStr(major) \o <<".">> \o IntStr(minor) \o <<".">> \o IntStr(patch)

Majors  == {0, 1}
Minors  == {2, 10, 17}
Patches == {2, 10}

\* The version strings an installed sciris may report, and a table may hold.
Versions == { VersionStr(a, b, c) : a \in Majors, b \in Minors, c \in Patches }

DigitVal(c) == CHOOSE d \in 0..9 : Digits[d + 1] = c

\* int(s) of a string of digits; the empty string counts as 0
RECURSIVE ParseInt(_)
ParseInt(s) ==
    IF s = <<>> THEN 0
    ELSE 10 * ParseInt(SubSeq(s, 1, Len(s) - 1)) + DigitVal(s[Len(s)])

\* s.split('.')
RECURSIVE SplitDots(_)
SplitDots(s) ==
    IF \A i \in 1..Len(s) : s[i] # "."
    THEN <<s>>
    ELSE LET i == CHOOSE j \in 1..Len(s) :
                      s[j] = "." /\ \A k \in 1..(j - 1) : s[k] # "."
         IN  <<SubSeq(s, 1, i - 1)>> \o SplitDots(SubSeq(s, i + 1, Len(s)))

\* The numeric components of a version string.
ParseVersion(s) ==
    LET parts == SplitDots(s) IN [i \in 1..Len(parts) |-> ParseInt(parts[i])]

\* Comparison of two lists of integers, first difference decides.
RECURSIVE CompareLists(_, _)
CompareLists(x, y) ==
    IF x = <<>> /\ y = <<>> THEN 0
    ELSE IF x = <<>> THEN -1
    ELSE IF y = <<>> THEN 1
    ELSE IF Head(x) < Head(y) THEN -1
    ELSE IF Head(x) > Head(y) THEN 1
    ELSE CompareLists(Tail(x), Tail(y))

\* sc.compareversions(version1, version2): -1, 0 or 1
compareversions(version1, version2) ==
    CompareLists(ParseVersion(version1), ParseVersion(version2))

---------------------------------------------------------------------------
(* Outcomes of a call *)

NoMsg == [fmt |-> "", args |-> <<>>]

\* `return value`
Return(value) ==
    [kind |-> "return", exc |-> "", msg |-> NoMsg, ret |-> value, printed |-> <<>>]

\* `raise exc(msg)`
Raise(exc, msg) ==
    [kind |-> "raise", exc |-> exc, msg |-> msg, ret |-> "", printed |-> <<>>]

\* `print(msg)` followed by `return value`
PrintReturn(msg, value) ==
    [kind |-> "return", exc |-> "", msg |-> NoMsg, ret |-> value, printed |-> <<msg>>]

---------------------------------------------------------------------------
(* The environment *)

Sciris(state, version) == [state |-> state, version |-> version]

\* sciris is absent, fails to import for another reason, or is installed
SciEnvs ==
    {Sciris("absent", <<>>), Sciris("broken", <<>>)}
        \cup { Sciris("installed", v) : v \in Versions }

Synthpops(state, error) == [state |-> state, error |-> error]

\* str(E) of the ImportError that "import synthpops" raises
LoadFailures ==
    { <<"No module named 'synthpops'">>,
      <<"cannot import name 'sp' from 'synthpops'">> }

SynEnvs ==
    {Synthpops("installed", <<>>)}
        \cup { Synthpops("unavailable", e) : e \in LoadFailures }

---------------------------------------------------------------------------
(* The module *)

\* available = {}
EmptyDict == [k \in {} |-> <<>>]

\* min_versions = {'sciris':'0.17.2'}
InitMinVersions == [k \in {"sciris"} |-> VersionStr(0, 17, 2)]

MissingMsg ==
    [fmt  |-> "Sciris is a required dependency but is not found; please install via \"pip install sciris\"",
     args |-> <<>>]

OutdatedMsg(ver, minver) ==
    [fmt  |-> "You have Sciris {ver} but {minver} is required; please upgrade via \"pip install --upgrade sciris\"",
     args |-> <<ver, minver>>]

SynthpopsMsg(E) ==
    [fmt  |-> "Synthpops (for detailed demographic data) is not available ({str(E)})\n",
     args |-> <<E>>]

\* check_sciris() with the arguments of the comparison exchanged
check_sciris_swapped(env, table) ==
    IF env.state = "absent" THEN Raise("ModuleNotFoundError", MissingMsg)
    ELSE IF env.state = "broken" THEN Raise("ImportError", NoMsg)
    ELSE LET ver == env.version IN
         IF "sciris" \notin DOMAIN table THEN Raise("KeyError", NoMsg)
         ELSE LET minver == table["sciris"] IN
              IF compareversions(minver, ver) < 0
              THEN Raise("ImportError", OutdatedMsg(ver, minver))
              ELSE Return("None")

\* check_sciris() that rejects the minimum version itself (<= 0)
check_sciris_strict(env, table) ==
    IF env.state = "absent" THEN Raise("ModuleNotFoundError", MissingMsg)
    ELSE IF env.state = "broken" THEN Raise("ImportError", NoMsg)
    ELSE LET ver == env.version IN
         IF "sciris" \notin DOMAIN table THEN Raise("KeyError", NoMsg)
         ELSE LET minver == table["sciris"] IN
              IF compareversions(ver, minver) <= 0
              THEN Raise("ImportError", OutdatedMsg(ver, minver))
              ELSE Return("None")

\* check_sciris() that reads the table before it attempts the import
check_sciris_tablefirst(env, table) ==
    IF "sciris" \notin DOMAIN table THEN Raise("KeyError", NoMsg)
    ELSE LET minver == table["sciris"] IN
         IF env.state = "absent" THEN Raise("ModuleNotFoundError", MissingMsg)
         ELSE IF env.state = "broken" THEN Raise("ImportError", NoMsg)
         ELSE LET ver == env.version IN
              IF compareversions(ver, minver) < 0
              THEN Raise("ImportError", OutdatedMsg(ver, minver))
              ELSE Return("None")

\* check_sciris(), given what the import finds and the table it reads
check_sciris(env, table) ==
    IF env.state = "absent" THEN Raise("ModuleNotFoundError", MissingMsg)
    ELSE IF env.state = "broken" THEN Raise("ImportError", NoMsg)
    ELSE LET ver == env.version IN
         IF "sciris" \notin DOMAIN table THEN Raise("KeyError", NoMsg)
         ELSE LET minver == table["sciris"] IN
              IF compareversions(ver, minver) < 0
              THEN Raise("ImportError", OutdatedMsg(ver, minver))
              ELSE Return("None")

\* check_synthpops() that lacks `return synthpops` and falls to the last `return`
check_synthpops_noreturn(verbose, die, env) ==
    IF env.state = "installed" THEN Return("None")
    ELSE LET import_error_msg == SynthpopsMsg(env.error) IN
         IF die THEN Raise("ImportError", import_error_msg)
         ELSE IF verbose THEN PrintReturn(import_error_msg, "False")
         ELSE Return("False")

\* check_synthpops() that tests verbose before die
check_synthpops_verbosefirst(verbose, die, env) ==
    IF env.state = "installed" THEN Return("synthpops")
    ELSE LET import_error_msg == SynthpopsMsg(env.error) IN
         IF verbose THEN PrintReturn(import_error_msg, "False")
         ELSE IF die THEN Raise("ImportError", import_error_msg)
         ELSE Return("False")

\* check_synthpops() that prints str(E) instead of the composed message
check_synthpops_printraw(verbose, die, env) ==
    IF env.state = "installed" THEN Return("synthpops")
    ELSE LET import_error_msg == SynthpopsMsg(env.error) IN
         IF die THEN Raise("ImportError", import_error_msg)
         ELSE IF verbose THEN PrintReturn([fmt |-> "{str(E)}", args |-> <<env.error>>], "False")
         ELSE Return("False")

\* check_synthpops() that prints whenever it does not raise
check_synthpops_alwaysprint(verbose, die, env) ==
    IF env.state = "installed" THEN Return("synthpops")
    ELSE LET import_error_msg == SynthpopsMsg(env.error) IN
         IF die THEN Raise("ImportError", import_error_msg)
         ELSE PrintReturn(import_error_msg, "False")

\* check_synthpops(verbose, die), given what the import finds
check_synthpops(verbose, die, env) ==
    IF env.state = "installed" THEN Return("synthpops")
    ELSE LET import_error_msg == SynthpopsMsg(env.error) IN
         IF die THEN Raise("ImportError", import_error_msg)
         ELSE IF verbose THEN PrintReturn(import_error_msg, "False")
         ELSE Return("False")

NotRun == [kind |-> "none", exc |-> "", msg |-> NoMsg, ret |-> "", printed |-> <<>>]

Call(fn, verbose, die, env, out) ==
    [fn |-> fn, verbose |-> verbose, die |-> die, env |-> env, out |-> out]

---------------------------------------------------------------------------
(* Actions *)

\* A module body whose check_sciris() call cannot abort the import
ImportModule_noabort ==
    /\ module_state = "unloaded"
    /\ LET out == check_sciris(sciris_env, InitMinVersions) IN
         /\ available' = EmptyDict
         /\ min_versions' = InitMinVersions
         /\ load_checks' = load_checks + 1
         /\ import_error' = out
         /\ module_state' = "loaded"
    /\ UNCHANGED <<sciris_env, synthpops_env, log, stdout>>

\* The module body runs: the two dicts are bound, the functions are defined,
\* and check_sciris() is called; an exception aborts the import.
ImportModule ==
    /\ module_state = "unloaded"
    /\ LET out == check_sciris(sciris_env, InitMinVersions) IN
         /\ available' = EmptyDict
         /\ min_versions' = InitMinVersions
         /\ load_checks' = load_checks + 1
         /\ import_error' = out
         /\ module_state' = IF out.kind = "return" THEN "loaded" ELSE "failed"
    /\ UNCHANGED <<sciris_env, synthpops_env, log, stdout>>

\* A consumer calls check_sciris()
CallCheckSciris ==
    /\ module_state = "loaded"
    /\ Len(log) < MaxCalls
    /\ LET out == check_sciris(sciris_env, min_versions) IN
         /\ log' = Append(log, Call("check_sciris", FALSE, FALSE, sciris_env, out))
         /\ stdout' = stdout \o out.printed
    /\ UNCHANGED <<sciris_env, synthpops_env, module_state, import_error,
                   load_checks, available, min_versions>>

\* check_synthpops() that repeats the outcome of the first probe
CallCheckSynthpops_cached ==
    /\ module_state = "loaded"
    /\ Len(log) < MaxCalls
    /\ \E verbose \in BOOLEAN, die \in BOOLEAN :
         LET seen == { i \in 1..Len(log) : log[i].fn = "check_synthpops" }
             first == CHOOSE i \in seen : \A j \in seen : i <= j
             env == IF seen = {} THEN synthpops_env ELSE log[first].env
             out == check_synthpops(verbose, die, env)
         IN
           /\ log' = Append(log, Call("check_synthpops", verbose, die, synthpops_env, out))
           /\ stdout' = stdout \o out.printed
    /\ UNCHANGED <<sciris_env, synthpops_env, module_state, import_error,
                   load_checks, available, min_versions>>

\* check_synthpops() that records the probe in `available`
CallCheckSynthpops_recording ==
    /\ module_state = "loaded"
    /\ Len(log) < MaxCalls
    /\ \E verbose \in BOOLEAN, die \in BOOLEAN :
         LET out == check_synthpops(verbose, die, synthpops_env) IN
           /\ log' = Append(log, Call("check_synthpops", verbose, die, synthpops_env, out))
           /\ stdout' = stdout \o out.printed
           /\ available' = [k \in {"synthpops"} |-> <<synthpops_env.state>>]
    /\ UNCHANGED <<sciris_env, synthpops_env, module_state, import_error,
                   load_checks, min_versions>>

\* A consumer calls check_synthpops(verbose, die)
CallCheckSynthpops ==
    /\ module_state = "loaded"
    /\ Len(log) < MaxCalls
    /\ \E verbose \in BOOLEAN, die \in BOOLEAN :
         LET out == check_synthpops(verbose, die, synthpops_env) IN
           /\ log' = Append(log, Call("check_synthpops", verbose, die, synthpops_env, out))
           /\ stdout' = stdout \o out.printed
    /\ UNCHANGED <<sciris_env, synthpops_env, module_state, import_error,
                   load_checks, available, min_versions>>

\* The optional library is installed, removed, or starts failing differently,
\* so the next "import synthpops" has another outcome.
SynthpopsChanges ==
    /\ \E e \in SynEnvs \ {synthpops_env} : synthpops_env' = e
    /\ UNCHANGED <<sciris_env, module_state, import_error, load_checks,
                   available, min_versions, log, stdout>>

---------------------------------------------------------------------------
(* Specifications *)

\* A process that imports the module in some environment.
Init ==
    /\ sciris_env \in SciEnvs
    /\ synthpops_env \in SynEnvs
    /\ module_state = "unloaded"
    /\ import_error = NotRun
    /\ load_checks = 0
    /\ available = EmptyDict
    /\ min_versions = EmptyDict
    /\ log = <<>>
    /\ stdout = <<>>

Next ==
    \/ ImportModule
    \/ CallCheckSciris
    \/ CallCheckSynthpops
    \/ SynthpopsChanges

Spec == Init /\ [][Next]_vars

\* The tables check_sciris may be run against: any minimum, or no entry.
Tables == {EmptyDict} \cup { [k \in {"sciris"} |-> v] : v \in Versions }

\* check_sciris() as a function of its inputs: the installed library and the
\* table, both arbitrary, in a loaded module.
InitInputs ==
    /\ sciris_env \in SciEnvs
    /\ synthpops_env = Synthpops("installed", <<>>)
    /\ module_state = "loaded"
    /\ import_error = Return("None")
    /\ load_checks = 1
    /\ available = EmptyDict
    /\ min_versions \in Tables
    /\ log = <<>>
    /\ stdout = <<>>

NextInputs == CallCheckSciris

SpecInputs == InitInputs /\ [][NextInputs]_vars

---------------------------------------------------------------------------
(* Properties *)

\* Semantic ordering of two version strings, from the numbers they were
\* written from: major first, then minor, then patch.
Triples == Majors \X Minors \X Patches

TripleLess(s, t) ==
    \/ s[1] < t[1]
    \/ s[1] = t[1] /\ s[2] < t[2]
    \/ s[1] = t[1] /\ s[2] = t[2] /\ s[3] < t[3]

SemLess(a, b) ==
    \E s \in Triples, t \in Triples :
        /\ VersionStr(s[1], s[2], s[3]) = a
        /\ VersionStr(t[1], t[2], t[3]) = b
        /\ TripleLess(s, t)

\* Consumer calls of check_sciris() that found the library, with a table entry
SciCompared ==
    { i \in 1..Len(log) : /\ log[i].fn = "check_sciris"
                          /\ log[i].env.state = "installed"
                          /\ "sciris" \in DOMAIN min_versions }

\* Consumer calls of check_synthpops()
SynCalls == { i \in 1..Len(log) : log[i].fn = "check_synthpops" }

\* The step is a call of check_synthpops(verbose, die) that finds no library
AbsentProbe(verbose, die) ==
    /\ Len(log') = Len(log) + 1
    /\ log'[Len(log')].fn = "check_synthpops"
    /\ log'[Len(log')].env.state = "unavailable"
    /\ log'[Len(log')].verbose = verbose
    /\ log'[Len(log')].die = die

\* C1: with sciris installed, for versions a < b in semantic (numeric,
\* component-wise) order, check_sciris raises the outdated-dependency error
\* when installed = a and minimum = b, and does not raise when installed = b
\* and minimum = a.
C1_SemanticOrdering ==
    \A i \in SciCompared :
        LET ver == log[i].env.version
            minver == min_versions["sciris"]
        IN  /\ SemLess(ver, minver) =>
                log[i].out = Raise("ImportError", OutdatedMsg(ver, minver))
            /\ SemLess(minver, ver) => log[i].out.kind = "return"

\* 0.17.2 installed, 0.17.10 required: lower numerically, higher as text
C1_Witness ==
    \E i \in SciCompared :
        /\ log[i].env.version = VersionStr(0, 17, 2)
        /\ min_versions["sciris"] = VersionStr(0, 17, 10)
        /\ log[i].out.kind = "raise"

\* C2: with sciris absent, check_sciris raises the missing-dependency error
\* whatever the minimum-version table holds, also when it has no entry for
\* sciris.
C2_MissingFirst ==
    \A i \in 1..Len(log) :
        (log[i].fn = "check_sciris" /\ log[i].env.state = "absent") =>
            log[i].out = Raise("ModuleNotFoundError", MissingMsg)

C2_Witness ==
    /\ min_versions = EmptyDict
    /\ \E i \in 1..Len(log) :
        /\ log[i].fn = "check_sciris"
        /\ log[i].env.state = "absent"
        /\ log[i].out.exc = "ModuleNotFoundError"

\* C3: the module is loaded only after exactly one check_sciris() that
\* returned normally; if that check raised, the import failed with that error
\* and the module stays unloaded for good; consumers call the functions only
\* in a loaded module.
C3_LoadState ==
    /\ module_state = "unloaded" => load_checks = 0 /\ import_error = NotRun
    /\ module_state = "loaded" => load_checks = 1 /\ import_error = Return("None")
    /\ module_state = "failed" =>
        /\ load_checks = 1
        /\ import_error.kind = "raise"
        /\ import_error = check_sciris(sciris_env, InitMinVersions)
    /\ log # <<>> => module_state = "loaded"

C3_CheckOnLoad ==
    /\ []C3_LoadState
    /\ [][module_state = "failed" => module_state' = "failed"]_vars
    /\ [][module_state = "loaded" => load_checks' = load_checks]_vars

C3_Witness ==
    /\ module_state = "loaded"
    /\ load_checks = 1
    /\ SynCalls # {}

\* C4: with synthpops installed, check_synthpops returns the library for every
\* verbose and die, raises nothing and prints nothing.
C4_PresentReturnsLibrary ==
    /\ [](\A i \in SynCalls :
            log[i].env.state = "installed" => log[i].out = Return("synthpops"))
    /\ [][ (/\ Len(log') = Len(log) + 1
            /\ log'[Len(log')].fn = "check_synthpops"
            /\ log'[Len(log')].env.state = "installed") => stdout' = stdout ]_vars

C4_Witness ==
    \E i \in SynCalls, j \in SynCalls :
        /\ log[i].env.state = "installed" /\ log[i].verbose /\ log[i].die
        /\ log[j].env.state = "installed" /\ ~log[j].verbose /\ ~log[j].die
        /\ log[i].out.ret = "synthpops"
        /\ log[j].out.ret = "synthpops"

\* C5: with synthpops unavailable and die true, check_synthpops raises the
\* optional-dependency error, whose message carries the text of the load
\* failure, for either value of verbose; nothing is printed or returned.
C5_DieRaises ==
    [][ \A verbose \in BOOLEAN :
          AbsentProbe(verbose, TRUE) =>
            /\ log'[Len(log')].out =
                 Raise("ImportError", SynthpopsMsg(synthpops_env.error))
            /\ log'[Len(log')].out.msg.args = <<log'[Len(log')].env.error>>
            /\ stdout' = stdout ]_vars

C5_Witness ==
    \E i \in SynCalls :
        /\ log[i].env.state = "unavailable"
        /\ log[i].verbose /\ log[i].die
        /\ log[i].out.kind = "raise"

\* C6: with synthpops unavailable, check_synthpops(verbose=True, die=False)
\* prints exactly one notice, the message the die path raises, raises nothing
\* and returns False.
C6_VerboseNotice ==
    [][ AbsentProbe(TRUE, FALSE) =>
          /\ stdout' = Append(stdout, SynthpopsMsg(synthpops_env.error))
          /\ log'[Len(log')].out.kind = "return"
          /\ log'[Len(log')].out.ret = "False" ]_vars

C6_Witness ==
    \E i \in SynCalls :
        /\ log[i].env.state = "unavailable"
        /\ log[i].verbose /\ ~log[i].die
        /\ log[i].out.ret = "False"
        /\ Len(stdout) = 1

\* C7: with synthpops unavailable, check_synthpops(verbose=False, die=False)
\* returns False, raises nothing and prints nothing.
C7_SilentSentinel ==
    [][ AbsentProbe(FALSE, FALSE) =>
          /\ log'[Len(log')].out = Return("False")
          /\ stdout' = stdout ]_vars

C7_Witness ==
    \E i \in SynCalls :
        /\ log[i].env.state = "unavailable"
        /\ ~log[i].verbose /\ ~log[i].die
        /\ log[i].out.ret = "False"
        /\ stdout = <<>>

C9_ConstantsUntouched ==
    module_state = "loaded" =>
        /\ min_versions = InitMinVersions
        /\ min_versions["sciris"] = <<"0", ".", "1", "7", ".", "2">>
        /\ available = EmptyDict
        /\ DOMAIN available = {}

C9_Witness ==
    /\ module_state = "loaded"
    /\ available = EmptyDict
    /\ \E i, j, k \in 1..Len(log) :
        /\ log[i].fn = "check_sciris"
        /\ log[j].fn = "check_synthpops" /\ log[j].out.kind = "raise"
        /\ log[k].fn = "check_synthpops" /\ log[k].out.printed # <<>>

\* C10: with sciris installed, check_sciris raises the outdated-dependency
\* error exactly when the installed version is strictly below the minimum;
\* with the installed version equal to the minimum it returns None.
C10_AtLeastMinimum ==
    \A i \in SciCompared :
        LET ver == log[i].env.version
            minver == min_versions["sciris"]
        IN  /\ (log[i].out.kind = "raise") <=> SemLess(ver, minver)
            /\ ver = minver => log[i].out = Return("None")

C10_Witness ==
    \E i \in SciCompared :
        /\ log[i].env.version = min_versions["sciris"]
        /\ log[i].out = Return("None")

====
